---- MODULE Spec2Model ----
\* Model of the Dradis MCP bridge (src/dradis_mcp): the field-block codec,
\* the update merge, the active-project selector and the tool calls.
EXTENDS Integers, Sequences, FiniteSets, TLC

\* ---------------------------------------------------------------------
\* Text is a sequence of characters; a value is tagged with its Python type.
\* ---------------------------------------------------------------------
CR == "\r"
LF == "\n"
CRLF == <<CR, LF>>

StrV(s) == [t |-> "str", v |-> s]
NoneV == [t |-> "none", v |-> <<>>]
IntV(n) == [t |-> "int", v |-> <<n>>]

Digits == <<"0", "1", "2", "3", "4", "5", "6", "7", "8", "9">>

\* str(v) / f"{v}" : text stays, None prints as "None", an int prints its digit.
TextOf(x) ==
  IF x.t = "str" THEN x.v
  ELSE IF x.t = "none" THEN <<"N", "o", "n", "e">>
  ELSE <<Digits[x.v[1] + 1]>>

IsSpace(c) == c \in {" ", "\t", CR, LF}

RECURSIVE LStrip(_)
LStrip(s) == IF s # <<>> /\ IsSpace(Head(s)) THEN LStrip(Tail(s)) ELSE s

RECURSIVE RStrip(_)
RStrip(s) ==
  IF s # <<>> /\ IsSpace(s[Len(s)]) THEN RStrip(SubSeq(s, 1, Len(s) - 1)) ELSE s

\* str.strip()
Strip(s) == RStrip(LStrip(s))

\* A field mapping (Python dict) is a sequence of entries with distinct keys,
\* in insertion order.
Keys(m) == {m[i].k : i \in 1..Len(m)}
HasKey(m, k) == \E i \in 1..Len(m) : m[i].k = k
Get(m, k) == m[CHOOSE i \in 1..Len(m) : m[i].k = k].v

\* Put that only overwrites and never inserts a new key.
PutExistingOnly(m, k, v) ==
  [i \in 1..Len(m) |-> IF m[i].k = k THEN [k |-> k, v |-> v] ELSE m[i]]

\* d[k] = v : replace in place when the key exists, else append.
Put(m, k, v) ==
  IF HasKey(m, k)
  THEN [i \in 1..Len(m) |-> IF m[i].k = k THEN [k |-> k, v |-> v] ELSE m[i]]
  ELSE Append(m, [k |-> k, v |-> v])

\* The overwrite test of update_vulnerability:
\*   isinstance(value, str) and value.strip() or value is not None
\* which Python groups as (A and B) or C.
Overwrites(x) == (x.t = "str" /\ Strip(x.v) # <<>>) \/ x.t # "none"

RECURSIVE MergeFrom(_, _, _)
MergeFrom(acc, upd, i) ==
  IF i > Len(upd) THEN acc
  ELSE MergeFrom(IF Overwrites(upd[i].v) THEN Put(acc, upd[i].k, upd[i].v) ELSE acc,
                 upd, i + 1)

\* A merge that never applies the update.
MergeIgnoresUpdate(snapshot, upd) == snapshot

\* updated_vulnerability = current_vuln.copy(); then the loop over the update.
Merge(snapshot, upd) == MergeFrom(snapshot, upd, 1)

\* A marker that lost its hashes.
MarkerNoHash(k) == <<"[">> \o k \o <<"]">>

\* One segment of _construct_dradis_response: "#[key]#\r\nvalue\r\n\r\n"
Marker(k) == <<"#", "[">> \o k \o <<"]", "#">>
Segment(e) == Marker(e.k) \o CRLF \o TextOf(e.v) \o CRLF \o CRLF

RECURSIVE ConstructFrom(_, _, _)
ConstructFrom(acc, data, i) ==
  IF i > Len(data) THEN acc
  ELSE ConstructFrom(acc \o Segment(data[i]), data, i + 1)

\* An encoder that strips the separator after the last entry.
ConstructStripped(data) ==
  LET full == ConstructFrom(<<>>, data, 1)
  IN IF full = <<>> THEN full ELSE SubSeq(full, 1, Len(full) - 4)

\* _construct_dradis_response
ConstructDradisResponse(data) == ConstructFrom(<<>>, data, 1)

\* ---------------------------------------------------------------------
\* Reading an encoded block
\* ---------------------------------------------------------------------
EndsWith(text, suffix) ==
  /\ Len(text) >= Len(suffix)
  /\ SubSeq(text, Len(text) - Len(suffix) + 1, Len(text)) = suffix

StartsAt(text, p, piece) ==
  /\ p + Len(piece) - 1 <= Len(text)
  /\ SubSeq(text, p, p + Len(piece) - 1) = piece

\* The bracket-and-hash pattern "#[" name "]#" starting at position p.
IsMarkerAt(text, p) ==
  /\ p + 1 <= Len(text)
  /\ text[p] = "#"
  /\ text[p + 1] = "["
  /\ \E q \in (p + 2)..(Len(text) - 1) :
       /\ text[q] = "]"
       /\ text[q + 1] = "#"
       /\ \A r \in (p + 2)..(q - 1) : text[r] \notin {"#", "[", "]", CR, LF}

MarkerPositions(text) == {p \in 1..Len(text) : IsMarkerAt(text, p)}

ContainsMarker(text) == MarkerPositions(text) # {}

\* Length of the template around one entry: "#[" "]#" CRLF ... CRLF CRLF.
SegmentLen(e) == Len(e.k) + Len(TextOf(e.v)) + 10

RECURSIVE OffsetOf(_, _)
OffsetOf(data, i) == IF i <= 1 THEN 0 ELSE OffsetOf(data, i - 1) + SegmentLen(data[i - 1])

\* Entry i of data sits at its place in text, in the template's form.
EntryEncodedAt(text, data, i) ==
  LET p == OffsetOf(data, i) + 1
      e == data[i]
  IN /\ StartsAt(text, p, <<"#", "[">>)
     /\ StartsAt(text, p + 2, e.k)
     /\ StartsAt(text, p + 2 + Len(e.k), <<"]", "#", CR, LF>>)
     /\ StartsAt(text, p + 6 + Len(e.k), TextOf(e.v))
     /\ StartsAt(text, p + 6 + Len(e.k) + Len(TextOf(e.v)), <<CR, LF, CR, LF>>)

IsConcatenationOf(text, data) ==
  /\ Len(text) = OffsetOf(data, Len(data) + 1)
  /\ \A i \in 1..Len(data) : EntryEncodedAt(text, data, i)

\* ---------------------------------------------------------------------
\* State
\* ---------------------------------------------------------------------
VARIABLES
  project_id,   \* server_state["project_id"]
  config,       \* server_state["config"] (the defaults create_project reads)
  call,         \* the tool calls in flight, one record per call slot
  issue,        \* the upstream issue record, as the platform stores it
  started,      \* number of tool calls started so far
  snapshot,     \* merge input: current_vuln
  update,       \* merge input: the vulnerability dict passed to the client
  merged,       \* updated_vulnerability
  block,        \* dradis_construct
  mpc,          \* position in the fetch-free merge-and-encode computation
  life,         \* the process: app_lifespan (or the connection script) and the client
  rq,           \* one run of DradisAPI._request, step by step
  cp            \* one run of create_project's defaulting, step by step

sessionVars == <<project_id, config, call, issue, started>>
mergeVars == <<snapshot, update, merged, block, mpc>>
restVars == <<snapshot, update, merged, block, mpc, life, rq, cp>>
vars == <<project_id, config, call, issue, started, snapshot, update, merged, block, mpc,
          life, rq, cp>>

\* The lifespan has yielded: config loaded, client created, tools being served.
LifeServing ==
  [mode |-> "server", pc |-> "serving", api |-> TRUE, client |-> "open",
   acquired |-> 1, released |-> 0, error |-> FALSE]

RqIdle ==
  [pc |-> "idle", method |-> "GET", project_id |-> NoneV, header |-> NoneV,
   transport |-> "ok", status |-> 200, parses |-> TRUE, error_body |-> "unset",
   raised |-> "none", result |-> "none",
   carried |-> [status |-> 0, body |-> "unset"]]

CpIdle ==
  [pc |-> "idle", team_id |-> NoneV, template_id |-> NoneV, template |-> NoneV,
   given |-> <<NoneV, NoneV, NoneV>>, defaults |-> <<NoneV, NoneV, NoneV>>,
   before |-> NoneV, requests |-> 0, result |-> "none"]

\* ---------------------------------------------------------------------
\* Bounds and input sets
\* ---------------------------------------------------------------------
MaxSnapshotLen == 2
MaxUpdateLen == 3

Title == <<"T">>
Severity == <<"S">>
Owner == <<"O">>
FieldNames == {Title, Severity, Owner}

SnapshotValues == {StrV(<<"o">>), StrV(Marker(Title)), IntV(7)}
UpdateValues == {NoneV, StrV(<<>>), StrV(<<" ">>), StrV(<<"n">>)}

Entry(k, v) == [k |-> k, v |-> v]

RECURSIVE MappingsOfLen(_, _, _)
MappingsOfLen(names, values, n) ==
  IF n = 0 THEN {<<>>}
  ELSE {Append(m, Entry(k, v)) :
          m \in {mm \in MappingsOfLen(names, values, n - 1) : TRUE},
          k \in names, v \in values}

DistinctKeys(m) == \A i, j \in 1..Len(m) : m[i].k = m[j].k => i = j

MappingsUpTo(names, values, n) ==
  {m \in UNION {MappingsOfLen(names, values, l) : l \in 0..n} : DistinctKeys(m)}

SnapshotSet == MappingsUpTo(FieldNames, SnapshotValues, MaxSnapshotLen)
UpdateSet == MappingsUpTo(FieldNames, UpdateValues, MaxUpdateLen)

\* ---------------------------------------------------------------------
\* The merge and the encoding of update_vulnerability on their own:
\* any snapshot, any update.
\* ---------------------------------------------------------------------
\* ---------------------------------------------------------------------
\* The session: tool calls against the upstream API
\* ---------------------------------------------------------------------
MaxCalls == 3

Slots == {1, 2}
ProjectIds == {0, 1}
TheIssue == 7
BlockKey == <<"B">>
OwnerProp == <<"o", "w">>
DeptProp == <<"d", "p">>
IdKey == <<"i", "d">>
AuthorKey == <<"a", "u", "t", "h", "o", "r">>

\* Python truthiness of server_state["project_id"]: `not project_id`.
Falsy(x) == x.t = "none" \/ (x.t = "int" /\ x.v[1] = 0) \/ (x.t = "str" /\ x.v = <<>>)

NoArg == [id |-> NoneV, kw |-> <<>>, name |-> <<>>, val |-> <<>>]

\* A call slot: where the call stands, its arguments, its local variables
\* (project_id, update_data, current_vuln / fields, doc_properties, the mapping
\* handed to the encoder), the requests it has sent, and how it ended.
\* rev_read and rev_wrote note which revision of the issue it fetched and wrote;
\* fields is response["fields"] of the fetched issue, got is the id of the
\* project a create returned.
IdleCall ==
  [pc |-> "idle", tool |-> "none", arg |-> NoArg, pid |-> NoneV,
   upd |-> <<>>, fields |-> <<>>, cur |-> <<>>, props |-> <<>>, data |-> <<>>,
   got |-> NoneV,
   rev_read |-> 0, rev_wrote |-> 0, sent |-> <<>>, result |-> "none"]

\* One upstream request as _request sends it: method, endpoint, the id or name
\* formatted into the path, the Dradis-Project-Id header and the text body.
Request(m, ep, tgt, hdr, body) ==
  [m |-> m, ep |-> ep, tgt |-> tgt, hdr |-> hdr, body |-> body, st |-> "pending"]

\* The arguments the tools are called with.
CreateKwargs ==
  { <<>>,
    <<Entry(Title, StrV(<<"n">>)), Entry(Severity, NoneV)>>,
    <<Entry(Title, NoneV), Entry(Severity, NoneV)>>,
    <<Entry(Title, IntV(3)), Entry(Severity, StrV(<<>>))>> }

UpdateKwargs ==
  { <<Entry(Title, StrV(<<"n">>))>>,
    <<Entry(Severity, StrV(<<"m">>))>>,
    <<Entry(Title, NoneV), Entry(Owner, StrV(<<"w">>))>> }

BlockContents == { <<>>, <<Entry(BlockKey, StrV(<<"x">>))>> }
Pages == {NoneV, IntV(1)}
TeamIds == {NoneV, IntV(3)}
DefaultTeamIds == {NoneV, IntV(5)}

\* What the platform may answer to the reads whose records are not tracked.
BlockFieldSets == { <<>>, <<Entry(BlockKey, StrV(<<"o">>))>> }
PropertyLists ==
  { <<>>,
    << <<Entry(OwnerProp, NoneV)>> >>,
    << <<Entry(DeptProp, StrV(<<"d">>))>>, <<Entry(OwnerProp, StrV(<<"a">>))>> >>,
    << <<Entry(DeptProp, StrV(<<"d">>))>> >> }

\* {k: str(v) for k, v in kwargs.items() if v is not None}
RECURSIVE StringifyFrom(_, _, _)
StringifyFrom(acc, kw, i) ==
  IF i > Len(kw) THEN acc
  ELSE StringifyFrom(IF kw[i].v.t # "none"
                     THEN Put(acc, kw[i].k, StrV(TextOf(kw[i].v)))
                     ELSE acc,
                     kw, i + 1)

\* {k: str(v) for k, v in kwargs.items()} : null arguments kept, as "None".
StringifyKeepingNone(kw) ==
  [i \in 1..Len(kw) |-> Entry(kw[i].k, StrV(TextOf(kw[i].v)))]

DropNoneAndStringify(kw) == StringifyFrom(<<>>, kw, 1)

\* get_vulnerability: {"id": ..., "author": ...} and then every field.
RECURSIVE PutAll(_, _, _)
PutAll(acc, fields, i) ==
  IF i > Len(fields) THEN acc
  ELSE PutAll(Put(acc, fields[i].k, fields[i].v), fields, i + 1)

VulnerabilityConstruction(response) ==
  PutAll(<<Entry(IdKey, response.id), Entry(AuthorKey, response.author)>>,
         response.fields, 1)

\* update_content_block: every str value of the content is written.
RECURSIVE PutStrings(_, _, _)
PutStrings(acc, content, i) ==
  IF i > Len(content) THEN acc
  ELSE PutStrings(IF content[i].v.t = "str"
                  THEN Put(acc, content[i].k, content[i].v)
                  ELSE acc,
                  content, i + 1)

\* Existence decided by the key alone.
PropertyExistsKeyOnly(props, name) ==
  \E i \in 1..Len(props) : HasKey(props[i], name)

\* any(property_name in prop and prop[property_name] is not None for prop in ...)
PropertyExists(props, name) ==
  \E i \in 1..Len(props) : HasKey(props[i], name) /\ Get(props[i], name).t # "none"

\* The platform's reading of a written block: the fields between the markers.
RECURSIVE NextMarker(_, _)
NextMarker(text, p) ==
  IF p > Len(text) THEN Len(text) + 1
  ELSE IF IsMarkerAt(text, p) THEN p ELSE NextMarker(text, p + 1)

MarkerClose(text, p) ==
  CHOOSE q \in (p + 2)..(Len(text) - 1) :
    /\ text[q] = "]" /\ text[q + 1] = "#"
    /\ \A r \in (p + 2)..(q - 1) : text[r] \notin {"#", "[", "]", CR, LF}

RECURSIVE DecodeFrom(_, _, _)
DecodeFrom(acc, text, p) ==
  LET m == NextMarker(text, p)
  IN IF m > Len(text) THEN acc
     ELSE LET q == MarkerClose(text, m)
              n == NextMarker(text, q + 2)
          IN DecodeFrom(Put(acc, SubSeq(text, m + 2, q - 1),
                            StrV(Strip(SubSeq(text, q + 2, n - 1)))),
                        text, n)

Decode(text) == DecodeFrom(<<>>, text, 1)

SessionIdle ==
  /\ project_id = NoneV
  /\ config = [dradis_default_team_id |-> NoneV]
  /\ call = [c \in Slots |-> IdleCall]
  /\ issue = [id |-> IntV(TheIssue), author |-> StrV(<<"a">>), rev |-> 0,
              fields |-> <<Entry(Title, StrV(<<"o">>)), Entry(Severity, StrV(<<"h">>))>>]
  /\ started = 0
  /\ life = LifeServing
  /\ rq = RqIdle
  /\ cp = CpIdle

MergeInit ==
  /\ SessionIdle
  /\ snapshot \in SnapshotSet
  /\ update \in UpdateSet
  /\ merged = <<>>
  /\ block = <<>>
  /\ mpc = "fetched"

\* api.py 211-214
DoMerge ==
  /\ mpc = "fetched"
  /\ merged' = Merge(snapshot, update)
  /\ mpc' = "merged"
  /\ UNCHANGED <<snapshot, update, block>>
  /\ UNCHANGED sessionVars
  /\ UNCHANGED <<life, rq, cp>>

\* api.py 217
DoConstruct ==
  /\ mpc = "merged"
  /\ block' = ConstructDradisResponse(merged)
  /\ mpc' = "constructed"
  /\ UNCHANGED <<snapshot, update, merged>>
  /\ UNCHANGED sessionVars
  /\ UNCHANGED <<life, rq, cp>>

MergeNext == DoMerge \/ DoConstruct

MergeSpec == MergeInit /\ [][MergeNext]_vars

\* ---------------------------------------------------------------------
\* Tool calls: the code up to the first await
\* ---------------------------------------------------------------------
ScopedTools ==
  {"get_project_details", "create_vulnerability", "get_vulnerabilities",
   "get_all_vulnerability_details", "get_vulnerability", "update_vulnerability",
   "get_content_blocks", "update_content_block", "get_document_properties",
   "upsert_document_property"}

ReadTools ==
  {"get_project_details", "get_vulnerabilities", "get_all_vulnerability_details",
   "get_vulnerability", "get_content_blocks", "get_document_properties"}

CanStart(c) == call[c].pc = "idle" /\ started < MaxCalls

Begin(c, cl) ==
  /\ call' = [call EXCEPT ![c] = cl]
  /\ started' = started + 1
  /\ UNCHANGED <<project_id, config, issue>>
  /\ UNCHANGED restVars

NewCall(tool, arg) == [IdleCall EXCEPT !.tool = tool, !.arg = arg]

\* raise ValueError("No project ID set. ...") before any request
NotSet(cl) ==
  [cl EXCEPT !.pc = "done", !.result = "PreconditionNotMet"]

Sending(cl, pc, req) == [cl EXCEPT !.pc = pc, !.sent = Append(cl.sent, req)]

\* set_project that stores the id before the project has been read.
StartSetProjectCommitFirst(c) ==
  /\ CanStart(c)
  /\ \E id \in ProjectIds :
       /\ call' = [call EXCEPT ![c] =
                     Sending(NewCall("set_project", [NoArg EXCEPT !.id = IntV(id)]), "fetch",
                             Request("GET", "projects", TextOf(IntV(id)), NoneV, <<>>))]
       /\ project_id' = IntV(id)
       /\ started' = started + 1
       /\ UNCHANGED <<config, issue>>
       /\ UNCHANGED restVars

\* server.py 106-119
StartSetProject(c) ==
  /\ CanStart(c)
  /\ \E id \in ProjectIds :
       Begin(c, Sending(NewCall("set_project", [NoArg EXCEPT !.id = IntV(id)]), "fetch",
                        Request("GET", "projects", TextOf(IntV(id)), NoneV, <<>>)))

\* server.py 125-137
StartGetProjectDetails(c) ==
  /\ CanStart(c)
  /\ LET cl == [NewCall("get_project_details", NoArg) EXCEPT !.pid = project_id]
     IN Begin(c, IF Falsy(cl.pid) THEN NotSet(cl)
                 ELSE Sending(cl, "fetch",
                              Request("GET", "projects", TextOf(cl.pid), NoneV, <<>>)))

\* server.py 142-186
StartCreateProject(c) ==
  /\ CanStart(c)
  /\ \E team \in TeamIds :
       LET team_id == IF team.t = "none" /\ ~Falsy(config.dradis_default_team_id)
                      THEN config.dradis_default_team_id ELSE team
           cl == NewCall("create_project", [NoArg EXCEPT !.id = team])
       IN Begin(c, IF team_id.t = "none"
                   THEN [cl EXCEPT !.pc = "done", !.result = "TeamIdRequired"]
                   ELSE Sending(cl, "write",
                                Request("POST", "projects", <<>>, NoneV, TextOf(team_id))))

\* create_vulnerability without the project check.
StartCreateVulnerabilityUnchecked(c) ==
  /\ CanStart(c)
  /\ \E kw \in CreateKwargs :
       LET cl == [NewCall("create_vulnerability", [NoArg EXCEPT !.kw = kw])
                    EXCEPT !.pid = project_id]
           data == DropNoneAndStringify(kw)
       IN Begin(c, Sending([cl EXCEPT !.data = data], "write",
                           Request("POST", "issues", <<>>, cl.pid,
                                   ConstructDradisResponse(data))))

\* server.py 197-215, api.py 183-196
StartCreateVulnerability(c) ==
  /\ CanStart(c)
  /\ \E kw \in CreateKwargs :
       LET cl == [NewCall("create_vulnerability", [NoArg EXCEPT !.kw = kw])
                    EXCEPT !.pid = project_id]
           data == DropNoneAndStringify(kw)
       IN Begin(c, IF Falsy(cl.pid) THEN NotSet(cl)
                   ELSE Sending([cl EXCEPT !.data = data], "write",
                                Request("POST", "issues", <<>>, cl.pid,
                                        ConstructDradisResponse(data))))

\* endpoint += f"?page={page}" only `if page`
PageQuery(page) == IF Falsy(page) THEN <<>> ELSE TextOf(page)

\* server.py 223-238, api.py 119-129
StartGetVulnerabilities(c) ==
  /\ CanStart(c)
  /\ \E page \in Pages :
       LET cl == [NewCall("get_vulnerabilities", [NoArg EXCEPT !.id = page])
                    EXCEPT !.pid = project_id]
       IN Begin(c, IF Falsy(cl.pid) THEN NotSet(cl)
                   ELSE Sending(cl, "fetch",
                                Request("GET", "issues", PageQuery(page), cl.pid, <<>>)))

\* server.py 249-264, api.py 141-151
StartGetAllVulnerabilityDetails(c) ==
  /\ CanStart(c)
  /\ \E page \in Pages :
       LET cl == [NewCall("get_all_vulnerability_details", [NoArg EXCEPT !.id = page])
                    EXCEPT !.pid = project_id]
       IN Begin(c, IF Falsy(cl.pid) THEN NotSet(cl)
                   ELSE Sending(cl, "fetch",
                                Request("GET", "issues", PageQuery(page), cl.pid, <<>>)))

\* server.py 275-290, api.py 163-169
StartGetVulnerability(c) ==
  /\ CanStart(c)
  /\ LET cl == [NewCall("get_vulnerability", [NoArg EXCEPT !.id = IntV(TheIssue)])
                  EXCEPT !.pid = project_id]
     IN Begin(c, IF Falsy(cl.pid) THEN NotSet(cl)
                 ELSE Sending(cl, "fetch",
                              Request("GET", "issue", TextOf(cl.arg.id), cl.pid, <<>>)))

\* server.py 295-315, api.py 200-208
StartUpdateVulnerability(c) ==
  /\ CanStart(c)
  /\ \E kw \in UpdateKwargs :
       LET cl == [NewCall("update_vulnerability",
                          [NoArg EXCEPT !.id = IntV(TheIssue), !.kw = kw])
                    EXCEPT !.pid = project_id]
       IN Begin(c, IF Falsy(cl.pid) THEN NotSet(cl)
                   ELSE Sending([cl EXCEPT !.upd = DropNoneAndStringify(kw)], "fetch",
                                Request("GET", "issue", TextOf(cl.arg.id), cl.pid, <<>>)))

\* server.py 325-337, api.py 228-230
StartGetContentBlocks(c) ==
  /\ CanStart(c)
  /\ LET cl == [NewCall("get_content_blocks", NoArg) EXCEPT !.pid = project_id]
     IN Begin(c, IF Falsy(cl.pid) THEN NotSet(cl)
                 ELSE Sending(cl, "fetch",
                              Request("GET", "content_blocks", <<>>, cl.pid, <<>>)))

\* server.py 342-369, api.py 249-257; UpdateContentBlock needs a non-empty content
StartUpdateContentBlock(c) ==
  /\ CanStart(c)
  /\ \E content \in BlockContents :
       LET cl == [NewCall("update_content_block",
                          [NoArg EXCEPT !.id = IntV(1), !.kw = content])
                    EXCEPT !.pid = project_id]
       IN Begin(c, IF Falsy(cl.pid) THEN NotSet(cl)
                   ELSE IF content = <<>>
                   THEN [cl EXCEPT !.pc = "done", !.result = "ValidationError"]
                   ELSE Sending(cl, "fetch",
                                Request("GET", "content_block", TextOf(cl.arg.id),
                                        cl.pid, <<>>)))

\* server.py 376-388, api.py 281-284
StartGetDocumentProperties(c) ==
  /\ CanStart(c)
  /\ LET cl == [NewCall("get_document_properties", NoArg) EXCEPT !.pid = project_id]
     IN Begin(c, IF Falsy(cl.pid) THEN NotSet(cl)
                 ELSE Sending(cl, "fetch",
                              Request("GET", "document_properties", <<>>, cl.pid, <<>>)))

\* server.py 393-409, api.py 286-294
StartUpsertDocumentProperty(c) ==
  /\ CanStart(c)
  /\ LET cl == [NewCall("upsert_document_property",
                        [NoArg EXCEPT !.name = OwnerProp, !.val = <<"b">>])
                  EXCEPT !.pid = project_id]
     IN Begin(c, IF Falsy(cl.pid) THEN NotSet(cl)
                 ELSE Sending(cl, "fetch",
                              Request("GET", "document_properties", <<>>, cl.pid, <<>>)))

\* ---------------------------------------------------------------------
\* Tool calls: the code after an await returns or raises
\* ---------------------------------------------------------------------
Awaiting(c) == call[c].pc \in {"fetch", "write"}
Pending(c) == call[c].sent[Len(call[c].sent)]

Settle(cl, st) == [cl EXCEPT !.sent[Len(cl.sent)].st = st]
Finish(cl, st, res) == [Settle(cl, st) EXCEPT !.pc = "done", !.result = res]

\* _request: HTTPStatusError is re-raised as it is, anything else (a transport
\* failure, a 2xx body that is not JSON) is wrapped as a network error; a
\* response of the wrong shape fails in the caller's validation.
ErrorOf(st) ==
  CASE st = "http" -> "UpstreamHTTPError"
    [] st \in {"net", "badjson"} -> "TransportError"
    [] st = "badshape" -> "ValidationError"

FailureOutcomes == {"http", "net", "badjson", "badshape"}

\* Tools that validate or index into the response body.
Validates(tool) == tool \notin {"get_document_properties", "upsert_document_property"}

\* The platform stores the fields it reads from the block of a PUT.
ApplyIssueWrite(body) ==
  [issue EXCEPT !.fields = Decode(body), !.rev = issue.rev + 1]

IsIssueWrite(req) == req.m = "PUT" /\ req.ep = "issue"

\* A failure that is answered by sending the same request once more.
RequestFailsRetry(c) ==
  /\ Awaiting(c)
  /\ \E st \in FailureOutcomes :
       /\ st = "badshape" => Validates(call[c].tool)
       /\ call' = [call EXCEPT ![c] =
                     IF Len(call[c].sent) < 3
                     THEN [Settle(call[c], st) EXCEPT
                             !.sent = Append(Settle(call[c], st).sent,
                                             [Pending(c) EXCEPT !.st = "pending"])]
                     ELSE Finish(call[c], st, ErrorOf(st))]
       /\ UNCHANGED <<project_id, config, issue, started>>
       /\ UNCHANGED restVars

\* A failure that also forgets the current project.
RequestFailsClearsProject(c) ==
  /\ Awaiting(c)
  /\ \E st \in FailureOutcomes :
       /\ st = "badshape" => Validates(call[c].tool)
       /\ call' = [call EXCEPT ![c] = Finish(call[c], st, ErrorOf(st))]
       /\ project_id' = NoneV
       /\ UNCHANGED <<config, issue, started>>
       /\ UNCHANGED restVars

\* A failed fetch of update_vulnerability that is swallowed: the update is
\* written over an empty snapshot.
RequestFailsWritesAnyway(c) ==
  /\ Awaiting(c)
  /\ \E st \in FailureOutcomes :
       /\ st = "badshape" => Validates(call[c].tool)
       /\ call' = [call EXCEPT ![c] =
                     IF call[c].tool = "update_vulnerability" /\ call[c].pc = "fetch"
                     THEN Sending([Settle(call[c], st) EXCEPT !.data = call[c].upd],
                                  "write",
                                  Request("PUT", "issue", TextOf(call[c].arg.id),
                                          call[c].pid,
                                          ConstructDradisResponse(call[c].upd)))
                     ELSE Finish(call[c], st, ErrorOf(st))]
       /\ UNCHANGED <<project_id, config, issue, started>>
       /\ UNCHANGED restVars

\* api.py 69-96: the awaited request raises; the exception leaves the tool.
\* A write whose answer is lost or unreadable may have reached the platform.
RequestFails(c) ==
  /\ Awaiting(c)
  /\ \E st \in FailureOutcomes, applied \in BOOLEAN :
       /\ st = "badshape" => Validates(call[c].tool)
       /\ applied => (IsIssueWrite(Pending(c)) /\ st # "http")
       /\ (IsIssueWrite(Pending(c)) /\ st \in {"badjson", "badshape"}) => applied
       /\ issue' = IF applied THEN ApplyIssueWrite(Pending(c).body) ELSE issue
       /\ call' = [call EXCEPT ![c] = Finish(call[c], st, ErrorOf(st))]
       /\ UNCHANGED <<project_id, config, started>>
       /\ UNCHANGED restVars

\* server.py 119-122
SetProjectOk(c) ==
  /\ call[c].tool = "set_project" /\ call[c].pc = "fetch"
  /\ project_id' = call[c].arg.id
  /\ call' = [call EXCEPT ![c] = Finish(call[c], "ok", "ok")]
  /\ UNCHANGED <<config, issue, started>>
  /\ UNCHANGED restVars

\* server.py 186-192
CreateProjectOk(c) ==
  /\ call[c].tool = "create_project" /\ call[c].pc = "write"
  /\ \E id \in ProjectIds :
       /\ project_id' = IntV(id)
       /\ call' = [call EXCEPT ![c] = [Finish(call[c], "ok", "ok") EXCEPT !.got = IntV(id)]]
  /\ UNCHANGED <<config, issue, started>>
  /\ UNCHANGED restVars

\* the tools that return after their one GET
ReadOk(c) ==
  /\ call[c].tool \in ReadTools /\ call[c].pc = "fetch"
  /\ call' = [call EXCEPT ![c] = Finish(call[c], "ok", "ok")]
  /\ UNCHANGED <<project_id, config, issue, started>>
  /\ UNCHANGED restVars

\* api.py 198, server.py 217-220
CreateVulnerabilityOk(c) ==
  /\ call[c].tool = "create_vulnerability" /\ call[c].pc = "write"
  /\ call' = [call EXCEPT ![c] = Finish(call[c], "ok", "ok")]
  /\ UNCHANGED <<project_id, config, issue, started>>
  /\ UNCHANGED restVars

\* api.py 208-224 (with get_vulnerability, 171-181): the fetch has returned;
\* merge, encode and send the PUT.
UpdateVulnerabilityFetched(c) ==
  /\ call[c].tool = "update_vulnerability" /\ call[c].pc = "fetch"
  /\ LET cl == Settle(call[c], "ok")
         cur == VulnerabilityConstruction(issue)
         data == Merge(cur, cl.upd)
     IN call' = [call EXCEPT ![c] =
                   Sending([cl EXCEPT !.fields = issue.fields, !.cur = cur, !.data = data,
                               !.rev_read = issue.rev],
                           "write",
                           Request("PUT", "issue", TextOf(cl.arg.id), cl.pid,
                                   ConstructDradisResponse(data)))]
  /\ UNCHANGED <<project_id, config, issue, started>>
  /\ UNCHANGED restVars

\* api.py 226, server.py 317-320
UpdateVulnerabilityWritten(c) ==
  /\ call[c].tool = "update_vulnerability" /\ call[c].pc = "write"
  /\ issue' = ApplyIssueWrite(Pending(c).body)
  /\ call' = [call EXCEPT ![c] =
                [Finish(call[c], "ok", "ok") EXCEPT !.rev_wrote = issue.rev + 1]]
  /\ UNCHANGED <<project_id, config, started>>
  /\ UNCHANGED restVars

\* api.py 257-277
ContentBlockFetched(c) ==
  /\ call[c].tool = "update_content_block" /\ call[c].pc = "fetch"
  /\ \E fields \in BlockFieldSets :
       LET cl == Settle(call[c], "ok")
           data == PutStrings(fields, cl.arg.kw, 1)
       IN call' = [call EXCEPT ![c] =
                     Sending([cl EXCEPT !.cur = fields, !.data = data], "write",
                             Request("PUT", "content_block", TextOf(cl.arg.id), cl.pid,
                                     ConstructDradisResponse(data)))]
  /\ UNCHANGED <<project_id, config, issue, started>>
  /\ UNCHANGED restVars

\* api.py 279, server.py 371
ContentBlockWritten(c) ==
  /\ call[c].tool = "update_content_block" /\ call[c].pc = "write"
  /\ call' = [call EXCEPT ![c] = Finish(call[c], "ok", "ok")]
  /\ UNCHANGED <<project_id, config, issue, started>>
  /\ UNCHANGED restVars

\* api.py 294-316
PropertiesFetched(c) ==
  /\ call[c].tool = "upsert_document_property" /\ call[c].pc = "fetch"
  /\ \E props \in PropertyLists :
       LET cl == [Settle(call[c], "ok") EXCEPT !.props = props]
       IN call' = [call EXCEPT ![c] =
                     Sending(cl, "write",
                             IF PropertyExists(props, cl.arg.name)
                             THEN Request("PUT", "document_property", cl.arg.name,
                                          cl.pid, cl.arg.val)
                             ELSE Request("POST", "document_properties", <<>>,
                                          cl.pid, cl.arg.name \o <<":">> \o cl.arg.val))]
  /\ UNCHANGED <<project_id, config, issue, started>>
  /\ UNCHANGED restVars

\* api.py 318, server.py 411
PropertyWritten(c) ==
  /\ call[c].tool = "upsert_document_property" /\ call[c].pc = "write"
  /\ call' = [call EXCEPT ![c] = Finish(call[c], "ok", "ok")]
  /\ UNCHANGED <<project_id, config, issue, started>>
  /\ UNCHANGED restVars

\* the tool's result or error has been handed to the caller
Return(c) ==
  /\ call[c].pc = "done"
  /\ call' = [call EXCEPT ![c] = IdleCall]
  /\ UNCHANGED <<project_id, config, issue, started>>
  /\ UNCHANGED restVars

Init ==
  /\ project_id = NoneV
  /\ config \in {[dradis_default_team_id |-> d] : d \in DefaultTeamIds}
  /\ call = [c \in Slots |-> IdleCall]
  /\ issue = [id |-> IntV(TheIssue), author |-> StrV(<<"a">>), rev |-> 0,
              fields |-> <<Entry(Title, StrV(<<"o">>)), Entry(Severity, StrV(<<"h">>))>>]
  /\ started = 0
  /\ snapshot = <<>>
  /\ update = <<>>
  /\ merged = <<>>
  /\ block = <<>>
  /\ mpc = "idle"
  /\ life = LifeServing
  /\ rq = RqIdle
  /\ cp = CpIdle

\* one step of the tool call in slot c
ToolStep(c) ==
  \/ StartSetProject(c)
  \/ StartGetProjectDetails(c)
  \/ StartCreateProject(c)
  \/ StartCreateVulnerability(c)
  \/ StartGetVulnerabilities(c)
  \/ StartGetAllVulnerabilityDetails(c)
  \/ StartGetVulnerability(c)
  \/ StartUpdateVulnerability(c)
  \/ StartGetContentBlocks(c)
  \/ StartUpdateContentBlock(c)
  \/ StartGetDocumentProperties(c)
  \/ StartUpsertDocumentProperty(c)
  \/ RequestFails(c)
  \/ SetProjectOk(c)
  \/ CreateProjectOk(c)
  \/ ReadOk(c)
  \/ CreateVulnerabilityOk(c)
  \/ UpdateVulnerabilityFetched(c)
  \/ UpdateVulnerabilityWritten(c)
  \/ ContentBlockFetched(c)
  \/ ContentBlockWritten(c)
  \/ PropertiesFetched(c)
  \/ PropertyWritten(c)
  \/ Return(c)

Next == \E c \in Slots : ToolStep(c)

Spec == Init /\ [][Next]_vars

\* ---------------------------------------------------------------------
\* The life of the process: app_lifespan around the served tools, and the
\* connection script's `async with DradisAPI(config)`.
\* ---------------------------------------------------------------------
LifeStart(mode) ==
  [mode |-> mode, pc |-> "start", api |-> FALSE, client |-> "none",
   acquired |-> 0, released |-> 0, error |-> FALSE]

LifeInit ==
  /\ project_id = NoneV
  /\ config \in {[dradis_default_team_id |-> d] : d \in DefaultTeamIds}
  /\ call = [c \in Slots |-> IdleCall]
  /\ issue = [id |-> IntV(TheIssue), author |-> StrV(<<"a">>), rev |-> 0,
              fields |-> <<Entry(Title, StrV(<<"o">>)), Entry(Severity, StrV(<<"h">>))>>]
  /\ started = 0
  /\ snapshot = <<>> /\ update = <<>> /\ merged = <<>> /\ block = <<>> /\ mpc = "idle"
  /\ life \in {LifeStart("server"), LifeStart("script")}
  /\ rq = RqIdle
  /\ cp = CpIdle

LifeOnly == UNCHANGED <<sessionVars, mergeVars, rq, cp>>

\* server.py 59-60, test_connection.py 25
LoadConfigOk ==
  /\ life.pc = "start"
  /\ life' = [life EXCEPT !.pc = "configured"]
  /\ LifeOnly

\* config.py 52-76 raises: the lifespan's except clause, or the script's
\* except clause, which returns False.
LoadConfigFails ==
  /\ life.pc = "start"
  /\ life' = [life EXCEPT !.error = TRUE,
                          !.pc = IF life.mode = "server" THEN "except" ELSE "terminated"]
  /\ LifeOnly

\* server.py 63-68 (api.py 26-39): the client is created and the lifespan
\* yields; test_connection.py 29: the client is created for `async with`.
CreateClient ==
  /\ life.pc = "configured"
  /\ life' = [life EXCEPT !.client = "open", !.acquired = life.acquired + 1,
                          !.api = (life.mode = "server"),
                          !.pc = IF life.mode = "server" THEN "serving" ELSE "entering"]
  /\ LifeOnly

\* the tools run between the yield and the end of the lifespan
ServeTool ==
  /\ life.mode = "server" /\ life.pc = "serving"
  /\ ToolStep(1)

\* A lifespan whose cleanup is skipped when the session ends in an error.
LifespanExitsNoCleanupOnError ==
  /\ life.mode = "server" /\ life.pc = "serving"
  /\ \E how \in {"normal", "exception", "cancelled"} :
       life' = [life EXCEPT !.error = (how # "normal"),
                            !.pc = IF how = "normal" THEN "finally" ELSE "terminated"]
  /\ LifeOnly

\* server.py 68-73: the session ends at the yield, normally, with an
\* Exception (handled by the except clause) or with a cancellation
\* (a BaseException, which goes straight to finally).
LifespanExits ==
  /\ life.mode = "server" /\ life.pc = "serving"
  /\ \E how \in {"normal", "exception", "cancelled"} :
       life' = [life EXCEPT !.error = (how # "normal"),
                            !.pc = IF how = "exception" THEN "except" ELSE "finally"]
  /\ LifeOnly

\* server.py 70-72: log and re-raise
LifespanExcept ==
  /\ life.mode = "server" /\ life.pc = "except"
  /\ life' = [life EXCEPT !.pc = "finally"]
  /\ LifeOnly

\* server.py 73-76 (api.py 50-52)
LifespanFinally ==
  /\ life.mode = "server" /\ life.pc = "finally"
  /\ life' = IF life.api
             THEN [life EXCEPT !.client = "closed", !.released = life.released + 1,
                               !.pc = "terminated"]
             ELSE [life EXCEPT !.pc = "terminated"]
  /\ LifeOnly

\* api.py 41-44
ScriptEnter ==
  /\ life.mode = "script" /\ life.pc = "entering"
  /\ life' = [life EXCEPT !.pc = "body"]
  /\ LifeOnly

\* test_connection.py 31-33: get_project_details(1) returns or raises
ScriptBody ==
  /\ life.mode = "script" /\ life.pc = "body"
  /\ \E ok \in BOOLEAN : life' = [life EXCEPT !.error = ~ok, !.pc = "aexit"]
  /\ LifeOnly

\* api.py 46-48, then test_connection.py 35-39
ScriptAExit ==
  /\ life.mode = "script" /\ life.pc = "aexit"
  /\ life' = [life EXCEPT !.client = "closed", !.released = life.released + 1,
                          !.pc = "terminated"]
  /\ LifeOnly

LifeNext ==
  \/ LoadConfigOk
  \/ LoadConfigFails
  \/ CreateClient
  \/ ServeTool
  \/ LifespanExits
  \/ LifespanExcept
  \/ LifespanFinally
  \/ ScriptEnter
  \/ ScriptBody
  \/ ScriptAExit

LifeSpec == LifeInit /\ [][LifeNext]_vars

Blank(x) == x.t = "none" \/ (x.t = "str" /\ Strip(x.v) = <<>>)
NonBlankText(x) == x.t = "str" /\ Strip(x.v) # <<>>

\* ---------------------------------------------------------------------
\* C1 (as written): an update whose values are all blank or null leaves the
\* snapshot as it is, and in general a blank value never replaces the
\* snapshot's value for its key.
\* ---------------------------------------------------------------------
C1_BlankNeverOverwrites ==
  mpc # "fetched" =>
    /\ (\A i \in 1..Len(update) : Blank(update[i].v)) => merged = snapshot
    /\ \A i \in 1..Len(update) :
         (Blank(update[i].v) /\ HasKey(snapshot, update[i].k))
           => Get(merged, update[i].k) = Get(snapshot, update[i].k)

\* ---------------------------------------------------------------------
\* C2: keys only in the snapshot pass through, non-blank text of the update
\* is written (inserted when new), no key comes from anywhere else, and an
\* update without blank or null values merged into the empty snapshot is the
\* update itself.
\* ---------------------------------------------------------------------
C2_MergeKeyWise ==
  mpc # "fetched" =>
    /\ \A k \in Keys(snapshot) \ Keys(update) :
         HasKey(merged, k) /\ Get(merged, k) = Get(snapshot, k)
    /\ \A k \in Keys(update) :
         NonBlankText(Get(update, k))
           => HasKey(merged, k) /\ Get(merged, k) = Get(update, k)
    /\ Keys(merged) \subseteq Keys(snapshot) \cup Keys(update)
    /\ DistinctKeys(merged)
    /\ (snapshot = <<>> /\ \A i \in 1..Len(update) : ~Blank(update[i].v))
         => merged = update

C2_Witness ==
  /\ mpc = "merged"
  /\ snapshot # <<>>
  /\ Keys(snapshot) \ Keys(update) # {}
  /\ \E k \in Keys(update) \ Keys(snapshot) : NonBlankText(Get(update, k))
  /\ \E k \in Keys(update) \cap Keys(snapshot) : NonBlankText(Get(update, k))

\* ---------------------------------------------------------------------
\* C6 (as written): the block is the concatenation of one segment per entry
\* and always ends with two CRLF sequences.
\* ---------------------------------------------------------------------
C6_AlwaysEndsWithTwoCRLF ==
  mpc = "constructed" =>
    /\ IsConcatenationOf(block, merged)
    /\ EndsWith(block, CRLF \o CRLF)

\* C6 (amended): the block is the concatenation, in mapping order, of one
\* segment per entry; it ends with two CRLF sequences when the mapping has an
\* entry, and is the empty text when the mapping is empty.
C6_ConcatenationOfSegments ==
  mpc = "constructed" =>
    /\ IsConcatenationOf(block, merged)
    /\ merged # <<>> => EndsWith(block, CRLF \o CRLF)
    /\ merged = <<>> => block = <<>>

C6_Witness ==
  /\ mpc = "constructed"
  /\ Len(merged) >= 2
  /\ \E i \in 1..Len(merged) : merged[i].v.t = "int"

\* ---------------------------------------------------------------------
\* C7 (as written): a non-empty mapping encodes to exactly len(M) marker
\* occurrences, one per key, each followed by CRLF and the key's value.
\* ---------------------------------------------------------------------
C7_ExactlyLenMarkers ==
  (mpc = "constructed" /\ merged # <<>>) =>
    /\ Cardinality(MarkerPositions(block)) = Len(merged)
    /\ \A i \in 1..Len(merged) :
         StartsAt(block, OffsetOf(merged, i) + 1,
                  Marker(merged[i].k) \o CRLF \o TextOf(merged[i].v))

\* C7 (amended): every entry has its marker at the start of its segment,
\* followed by CRLF and the value's text; the block holds at least len(M)
\* marker occurrences, and exactly len(M) when no value's text itself
\* contains the marker pattern.
C7_MarkerPerEntry ==
  (mpc = "constructed" /\ merged # <<>>) =>
    /\ \A i \in 1..Len(merged) :
         /\ IsMarkerAt(block, OffsetOf(merged, i) + 1)
         /\ StartsAt(block, OffsetOf(merged, i) + 1,
                     Marker(merged[i].k) \o CRLF \o TextOf(merged[i].v))
    /\ Cardinality(MarkerPositions(block)) >= Len(merged)
    /\ (\A i \in 1..Len(merged) : ~ContainsMarker(TextOf(merged[i].v)))
         => Cardinality(MarkerPositions(block)) = Len(merged)

C7_Witness ==
  /\ mpc = "constructed"
  /\ Len(merged) >= 2
  /\ \A i \in 1..Len(merged) : ~ContainsMarker(TextOf(merged[i].v))
  /\ Cardinality(MarkerPositions(block)) = Len(merged)

\* ---------------------------------------------------------------------
\* C3: set_project stores the id only when the project read succeeded; a
\* failed read ends the call with the active project as it was, so with no
\* project set a get_project_details still fails with PreconditionNotMet.
\* ---------------------------------------------------------------------
C3_SetCommitsOnlyOnSuccess ==
  [][\A c \in Slots :
       /\ (call[c].pc = "idle" /\ call'[c].tool = "set_project")
            => project_id' = project_id
       /\ (call[c].tool = "set_project" /\ call[c].pc = "fetch" /\ call'[c].pc = "done")
            => IF call'[c].result = "ok"
               THEN call'[c].sent[1].st = "ok" /\ project_id' = call[c].arg.id
               ELSE call'[c].sent[1].st \in FailureOutcomes /\ project_id' = project_id
       /\ (project_id = NoneV /\ call[c].pc = "idle"
             /\ call'[c].tool = "get_project_details")
            => /\ call'[c].pc = "done"
               /\ call'[c].result = "PreconditionNotMet"
               /\ project_id' = NoneV
    ]_vars

C3_Witness ==
  /\ project_id = NoneV
  /\ \E c1, c2 \in Slots :
       /\ call[c1].tool = "set_project" /\ call[c1].pc = "done"
       /\ call[c1].result = "UpstreamHTTPError"
       /\ call[c2].tool = "get_project_details" /\ call[c2].pc = "done"
       /\ call[c2].result = "PreconditionNotMet"

\* ---------------------------------------------------------------------
\* C4: a project-scoped tool called while no project id is set fails with
\* PreconditionNotMet and sends no request, then or later in the call.
\* ---------------------------------------------------------------------
C4_UnsetFailsClosed ==
  [][\A c \in Slots :
       /\ (call[c].pc = "idle" /\ call'[c].tool \in ScopedTools /\ project_id = NoneV)
            => /\ call'[c].pc = "done"
               /\ call'[c].result = "PreconditionNotMet"
               /\ call'[c].sent = <<>>
       /\ (call[c].result = "PreconditionNotMet") => call'[c].sent = <<>>
    ]_vars

C4_Witness ==
  /\ project_id = NoneV
  /\ \E c1, c2 \in Slots :
       /\ call[c1].tool = "create_vulnerability" /\ call[c1].pc = "done"
       /\ call[c1].result = "PreconditionNotMet" /\ call[c1].sent = <<>>
       /\ call[c2].tool = "upsert_document_property" /\ call[c2].pc = "done"
       /\ call[c2].result = "PreconditionNotMet" /\ call[c2].sent = <<>>

\* ---------------------------------------------------------------------
\* C5: two update_vulnerability calls can both fetch before either writes;
\* then the first write carries its change, the second call's snapshot and
\* block lack it, and the record left upstream has lost it.
\* ---------------------------------------------------------------------
UpdatesInterleaved(c1, c2) ==
  /\ c1 # c2
  /\ call[c1].tool = "update_vulnerability" /\ call[c1].result = "ok"
  /\ call[c2].tool = "update_vulnerability" /\ call[c2].result = "ok"
  /\ call[c1].rev_read = call[c2].rev_read
  /\ call[c1].rev_wrote = call[c1].rev_read + 1
  /\ call[c2].rev_wrote = call[c1].rev_wrote + 1
  /\ issue.rev = call[c2].rev_wrote

\* A field the first call changes and the second call does not mention.
ChangedOnlyByFirst(c1, c2) ==
  {k \in Keys(call[c1].upd) \ Keys(call[c2].upd) :
     ~(HasKey(call[c1].cur, k) /\ Get(call[c1].cur, k) = Get(call[c1].upd, k))}

C5_LostUpdate ==
  \A c1, c2 \in Slots :
    UpdatesInterleaved(c1, c2) =>
      \A k \in ChangedOnlyByFirst(c1, c2) :
        /\ HasKey(call[c1].data, k) /\ Get(call[c1].data, k) = Get(call[c1].upd, k)
        /\ ~(HasKey(call[c2].cur, k) /\ Get(call[c2].cur, k) = Get(call[c1].upd, k))
        /\ ~(HasKey(issue.fields, k) /\ Get(issue.fields, k) = Get(call[c1].upd, k))

C5_Witness ==
  \E c1, c2 \in Slots :
    /\ UpdatesInterleaved(c1, c2)
    /\ ChangedOnlyByFirst(c1, c2) # {}
    /\ call[c1].pc = "done" /\ call[c2].pc = "done"

\* ---------------------------------------------------------------------
\* C8: upsert_document_property reads the property list and then sends one
\* write: PUT by name exactly when some entry holds the name with a non-null
\* value, POST otherwise.
\* ---------------------------------------------------------------------
NonNullEntry(props, name) ==
  \E i \in 1..Len(props) : \E j \in 1..Len(props[i]) :
    props[i][j].k = name /\ props[i][j].v # NoneV

C8_UpsertChoosesWrite ==
  \A c \in Slots :
    call[c].tool = "upsert_document_property" =>
      LET s == call[c].sent
      IN /\ Len(s) <= 2
         /\ Len(s) >= 1 => (s[1].m = "GET" /\ s[1].ep = "document_properties")
         /\ (Len(s) >= 1 /\ s[1].st = "ok") => Len(s) = 2
         /\ Len(s) = 2 =>
              /\ s[1].st = "ok"
              /\ s[2].m \in {"PUT", "POST"}
              /\ s[2].m = "PUT" <=> NonNullEntry(call[c].props, call[c].arg.name)
              /\ s[2].m = "PUT" =>
                   (s[2].ep = "document_property" /\ s[2].tgt = call[c].arg.name)
              /\ s[2].m = "POST" => s[2].ep = "document_properties"

C8_Witness ==
  \E c \in Slots :
    /\ call[c].tool = "upsert_document_property"
    /\ call[c].props = << <<Entry(OwnerProp, NoneV)>> >>
    /\ Len(call[c].sent) = 2
    /\ call[c].sent[2].m = "POST"

\* ---------------------------------------------------------------------
\* C9: the block create_vulnerability posts has a marker for exactly the
\* arguments whose value is not null, each followed by the value's text, and
\* none for a null argument.
\* ---------------------------------------------------------------------
MarkerNames(text) ==
  {SubSeq(text, p + 2, MarkerClose(text, p) - 1) : p \in MarkerPositions(text)}

NotNull(e) == e.v.t # "none"

C9_CreateDropsNulls ==
  \A c \in Slots :
    (call[c].tool = "create_vulnerability" /\ call[c].sent # <<>>) =>
      LET body == call[c].sent[1].body
          kw == call[c].arg.kw
          given == SelectSeq(kw, NotNull)
      IN /\ call[c].sent[1].m = "POST" /\ call[c].sent[1].ep = "issues"
         /\ MarkerNames(body) = {kw[i].k : i \in {j \in 1..Len(kw) : kw[j].v.t # "none"}}
         /\ Cardinality(MarkerPositions(body)) = Len(given)
         /\ \A i \in 1..Len(given) :
              StartsAt(body, OffsetOf(given, i) + 1,
                       Marker(given[i].k) \o CRLF \o TextOf(given[i].v) \o CRLF \o CRLF)
         /\ \A i \in 1..Len(kw) : kw[i].v.t = "none" => kw[i].k \notin MarkerNames(body)

C9_Witness ==
  \E c \in Slots :
    /\ call[c].tool = "create_vulnerability"
    /\ call[c].arg.kw = <<Entry(Title, StrV(<<"n">>)), Entry(Severity, NoneV)>>
    /\ call[c].sent # <<>>
    /\ call[c].sent[1].st = "ok"

\* ---------------------------------------------------------------------
\* C10: no request is sent twice in a call, and a failed request is the
\* last one: the call has ended in an error and sends nothing after it.
\* ---------------------------------------------------------------------
C10_NoRetry ==
  \A c \in Slots :
    LET s == call[c].sent
    IN /\ \A i \in 1..Len(s) :
            /\ i < Len(s) => s[i].st = "ok"
            /\ s[i].st \in FailureOutcomes
                 => (call[c].pc = "done" /\ call[c].result = ErrorOf(s[i].st))
            /\ s[i].st = "pending" => call[c].pc \in {"fetch", "write"}
       /\ \A i, j \in 1..Len(s) :
            (s[i].m = s[j].m /\ s[i].ep = s[j].ep /\ s[i].tgt = s[j].tgt) => i = j
       /\ Len(s) <= 2

C10_Witness ==
  \E c \in Slots :
    /\ call[c].tool = "update_vulnerability"
    /\ call[c].pc = "done"
    /\ Len(call[c].sent) = 2
    /\ call[c].sent[1].st = "ok"
    /\ call[c].sent[2].st = "net"
    /\ call[c].result = "TransportError"

\* ---------------------------------------------------------------------
\* DradisAPI._request, one statement at a time, for any request and any
\* answer of the transport.
\* ---------------------------------------------------------------------
Methods == {"GET", "POST", "PUT"}
HeaderIds == {NoneV, IntV(0), IntV(1)}
TransportOutcomes == {"ok", "timeout", "refused"}
StatusCodes == {200, 201, 404, 500}

\* response.is_success
IsSuccess(status) == status >= 200 /\ status < 300

RqInit ==
  /\ project_id = NoneV
  /\ config = [dradis_default_team_id |-> NoneV]
  /\ call = [c \in Slots |-> IdleCall]
  /\ issue = [id |-> IntV(TheIssue), author |-> StrV(<<"a">>), rev |-> 0,
              fields |-> <<Entry(Title, StrV(<<"o">>)), Entry(Severity, StrV(<<"h">>))>>]
  /\ started = 0
  /\ snapshot = <<>> /\ update = <<>> /\ merged = <<>> /\ block = <<>> /\ mpc = "idle"
  /\ life = LifeServing
  /\ cp = CpIdle
  /\ rq \in {[RqIdle EXCEPT !.pc = "start", !.method = m, !.project_id = p,
                            !.transport = t, !.status = st, !.parses = b] :
               m \in Methods, p \in HeaderIds, t \in TransportOutcomes,
               st \in StatusCodes, b \in BOOLEAN}

RqOnly == UNCHANGED <<sessionVars, mergeVars, life, cp>>

\* api.py 62-67: the header is added when project_id is not None
RqBuildHeaders ==
  /\ rq.pc = "start"
  /\ rq' = [rq EXCEPT !.pc = "send",
                      !.header = IF rq.project_id.t # "none"
                                 THEN StrV(TextOf(rq.project_id)) ELSE NoneV]
  /\ RqOnly

\* api.py 70-75: the awaited request returns a response or raises
RqSend ==
  /\ rq.pc = "send"
  /\ rq' = IF rq.transport = "ok"
           THEN [rq EXCEPT !.pc = "attempt"]
           ELSE [rq EXCEPT !.pc = "except", !.raised = "Other"]
  /\ RqOnly

\* api.py 78-81: try response.json(), bare except falls back to response.text
RqTryParse ==
  /\ rq.pc = "attempt"
  /\ rq' = [rq EXCEPT !.pc = "check",
                      !.error_body = IF rq.parses THEN "json" ELSE "text"]
  /\ RqOnly

\* api.py 83-91: raise HTTPStatusError for a non-2xx status, else return
\* response.json(), which raises when the body is not JSON
RqCheck ==
  /\ rq.pc = "check"
  /\ rq' = IF ~IsSuccess(rq.status)
           THEN [rq EXCEPT !.pc = "except", !.raised = "HTTPStatusError",
                           !.carried = [status |-> rq.status, body |-> rq.error_body]]
           ELSE IF rq.parses
           THEN [rq EXCEPT !.pc = "done", !.result = "ok"]
           ELSE [rq EXCEPT !.pc = "except", !.raised = "Other"]
  /\ RqOnly

\* Handlers that wrap every exception as a network error.
RqHandlerWrapsAll(raised) == "TransportError"

\* api.py 93-96: `except httpx.HTTPStatusError: raise` comes first, then
\* `except Exception` wraps
RqHandler(raised) ==
  IF raised = "HTTPStatusError" THEN "UpstreamHTTPError" ELSE "TransportError"

RqExcept ==
  /\ rq.pc = "except"
  /\ rq' = [rq EXCEPT !.pc = "done", !.result = RqHandler(rq.raised)]
  /\ RqOnly

RqNext == RqBuildHeaders \/ RqSend \/ RqTryParse \/ RqCheck \/ RqExcept

RequestSpec == RqInit /\ [][RqNext]_vars

\* ---------------------------------------------------------------------
\* create_project, one statement at a time, for any arguments and any
\* configured defaults.
\* ---------------------------------------------------------------------
GivenIds == {NoneV, IntV(0), IntV(3)}
ConfiguredIds == {NoneV, IntV(0), IntV(5)}
GivenTemplates == {NoneV, StrV(<<>>), StrV(<<"t">>)}
ConfiguredTemplates == {NoneV, StrV(<<"d">>), StrV(<<"e">>)}
CreatedIds == {0, 1, 2}

CpInit ==
  /\ project_id \in {NoneV, IntV(1)}
  /\ call = [c \in Slots |-> IdleCall]
  /\ issue = [id |-> IntV(TheIssue), author |-> StrV(<<"a">>), rev |-> 0,
              fields |-> <<Entry(Title, StrV(<<"o">>)), Entry(Severity, StrV(<<"h">>))>>]
  /\ started = 0
  /\ snapshot = <<>> /\ update = <<>> /\ merged = <<>> /\ block = <<>> /\ mpc = "idle"
  /\ life = LifeServing
  /\ rq = RqIdle
  /\ \E g1 \in GivenIds, g2 \in GivenIds, g3 \in GivenTemplates,
        d1 \in ConfiguredIds, d2 \in ConfiguredIds, d3 \in ConfiguredTemplates :
       /\ config = [dradis_default_team_id |-> d1]
       /\ cp = [CpIdle EXCEPT !.pc = "team", !.given = <<g1, g2, g3>>,
                              !.defaults = <<d1, d2, d3>>,
                              !.team_id = g1, !.template_id = g2, !.template = g3,
                              !.before = project_id]

CpOnly == UNCHANGED <<config, call, issue, started, mergeVars, life, rq>>

\* server.py 166-167
CpDefaultTeam ==
  /\ cp.pc = "team"
  /\ cp' = [cp EXCEPT !.pc = "template_id",
                      !.team_id = IF cp.team_id.t = "none" /\ ~Falsy(cp.defaults[1])
                                  THEN cp.defaults[1] ELSE cp.team_id]
  /\ UNCHANGED project_id
  /\ CpOnly

\* server.py 169-170
CpDefaultTemplateId ==
  /\ cp.pc = "template_id"
  /\ cp' = [cp EXCEPT !.pc = "template",
                      !.template_id = IF cp.template_id.t = "none" /\ ~Falsy(cp.defaults[2])
                                      THEN cp.defaults[2] ELSE cp.template_id]
  /\ UNCHANGED project_id
  /\ CpOnly

\* server.py 172-173
CpDefaultTemplate ==
  /\ cp.pc = "template"
  /\ cp' = [cp EXCEPT !.pc = "check",
                      !.template = IF cp.template.t = "none" /\ ~Falsy(cp.defaults[3])
                                   THEN cp.defaults[3] ELSE cp.template]
  /\ UNCHANGED project_id
  /\ CpOnly

\* server.py 175-186: raise when team_id is None, else send the POST
CpCheckTeam ==
  /\ cp.pc = "check"
  /\ cp' = IF cp.team_id.t = "none"
           THEN [cp EXCEPT !.pc = "done", !.result = "TeamIdRequired"]
           ELSE [cp EXCEPT !.pc = "await", !.requests = cp.requests + 1]
  /\ UNCHANGED project_id
  /\ CpOnly

\* server.py 186-192: the project comes back and becomes the current one
CpCreated ==
  /\ cp.pc = "await"
  /\ \E id \in CreatedIds : project_id' = IntV(id)
  /\ cp' = [cp EXCEPT !.pc = "done", !.result = "ok"]
  /\ CpOnly

\* api.py 112-117 raises
CpRequestFails ==
  /\ cp.pc = "await"
  /\ \E st \in FailureOutcomes : cp' = [cp EXCEPT !.pc = "done", !.result = ErrorOf(st)]
  /\ UNCHANGED project_id
  /\ CpOnly

CpNext ==
  \/ CpDefaultTeam
  \/ CpDefaultTemplateId
  \/ CpDefaultTemplate
  \/ CpCheckTeam
  \/ CpCreated
  \/ CpRequestFails

CreateProjectSpec == CpInit /\ [][CpNext]_vars

\* ---------------------------------------------------------------------
\* C11: the client is created at most once, and when the process has ended,
\* by whatever path, a client that was created has been closed exactly once.
\* ---------------------------------------------------------------------
C11_ClientReleased ==
  /\ life.acquired <= 1
  /\ life.released <= life.acquired
  /\ life.pc \in {"serving", "body"} => life.client = "open"
  /\ life.pc = "terminated" =>
       /\ life.client # "open"
       /\ life.released = life.acquired

C11_Witness ==
  /\ life.mode = "server"
  /\ life.pc = "terminated"
  /\ life.error
  /\ life.acquired = 1 /\ life.released = 1
  /\ started > 0

\* ---------------------------------------------------------------------
\* C12: a non-2xx response ends the request with UpstreamHTTPError carrying
\* the status and the body, parsed or as raw text; the attempt to parse the
\* body raises nothing itself, and an HTTPStatusError is never turned into
\* a TransportError.
\* ---------------------------------------------------------------------
C12_HttpErrorUnwrapped ==
  /\ (rq.pc = "done" /\ rq.transport = "ok" /\ ~IsSuccess(rq.status)) =>
       /\ rq.result = "UpstreamHTTPError"
       /\ rq.carried.status = rq.status
       /\ rq.carried.body = IF rq.parses THEN "json" ELSE "text"
  /\ rq.pc = "check" => (rq.raised = "none" /\ rq.error_body \in {"json", "text"})
  /\ (rq.pc = "done" /\ rq.raised = "HTTPStatusError") => rq.result = "UpstreamHTTPError"
  /\ rq.result = "UpstreamHTTPError" => (rq.transport = "ok" /\ ~IsSuccess(rq.status))

C12_Witness ==
  /\ rq.pc = "done"
  /\ rq.status = 404
  /\ ~rq.parses
  /\ rq.result = "UpstreamHTTPError"
  /\ rq.carried.body = "text"

\* ---------------------------------------------------------------------
\* C13 (as written): each omitted optional argument of create_project takes
\* its configured default when one is configured, a supplied value is never
\* overridden, and a team_id still absent ends the call with no request sent
\* and the active project unchanged.
\* ---------------------------------------------------------------------
CpLocals == <<cp.team_id, cp.template_id, cp.template>>

C13_DefaultsApplied ==
  /\ cp.pc \in {"check", "await", "done"} =>
       \A i \in 1..3 :
         /\ cp.given[i] # NoneV => CpLocals[i] = cp.given[i]
         /\ (cp.given[i] = NoneV /\ cp.defaults[i] # NoneV) => CpLocals[i] = cp.defaults[i]
  /\ (cp.pc = "done" /\ cp.team_id = NoneV) =>
       /\ cp.result = "TeamIdRequired"
       /\ cp.requests = 0
       /\ project_id = cp.before

\* ---------------------------------------------------------------------
\* C14 (as written): once set_project has succeeded for an id, 0 included,
\* a project-scoped tool obtains that id and does not fail with
\* PreconditionNotMet; the failure happens only when no id is set.
\* ---------------------------------------------------------------------
C14_SetIdIsObtained ==
  [][\A c \in Slots :
       (call[c].pc = "idle" /\ call'[c].tool \in ScopedTools) =>
         /\ call'[c].result = "PreconditionNotMet" => project_id = NoneV
         /\ (\E d \in Slots : /\ call[d].tool = "set_project"
                              /\ call[d].result = "ok"
                              /\ call[d].arg.id = project_id)
              => (call'[c].result # "PreconditionNotMet" /\ call'[c].pid = project_id)
    ]_vars

\* ---------------------------------------------------------------------
\* C15 (as written): the block update_vulnerability writes has a marker for
\* exactly the names of the fetched record's fields and of the applied
\* update, and for no other name.
\* ---------------------------------------------------------------------
C15_BlockNamesAreFieldNames ==
  \A c \in Slots :
    (call[c].tool = "update_vulnerability" /\ Len(call[c].sent) = 2) =>
      MarkerNames(call[c].sent[2].body) = Keys(call[c].fields) \cup Keys(call[c].upd)

\* ---------------------------------------------------------------------
\* C16: the active project changes only to the id of a set_project whose
\* read succeeded or to the id a successful create_project returned; it
\* never goes back to unset, and a call that fails leaves it as it was.
\* ---------------------------------------------------------------------
C16_ProjectIdVouched ==
  [][/\ project_id' # project_id =>
          \E c \in Slots :
            \/ /\ call[c].tool = "set_project" /\ call[c].pc = "fetch"
               /\ call'[c].pc = "done" /\ call'[c].result = "ok"
               /\ call'[c].sent[1].st = "ok"
               /\ project_id' = call[c].arg.id
            \/ /\ call[c].tool = "create_project" /\ call[c].pc = "write"
               /\ call'[c].pc = "done" /\ call'[c].result = "ok"
               /\ call'[c].sent[1].st = "ok"
               /\ project_id' = call'[c].got
     /\ project_id # NoneV => project_id' # NoneV
     /\ \A c \in Slots :
          (call[c].pc # "done" /\ call'[c].pc = "done" /\ call'[c].result # "ok")
            => project_id' = project_id
    ]_vars

C16_Witness ==
  /\ project_id # NoneV
  /\ \E c, d \in Slots :
       /\ call[c].tool = "create_project" /\ call[c].result = "ok"
       /\ call[c].got = project_id
       /\ call[d].tool = "set_project" /\ call[d].pc = "done"
       /\ call[d].result = "UpstreamHTTPError"
       /\ call[d].arg.id # project_id

\* ---------------------------------------------------------------------
\* C17: in update_vulnerability, update_content_block and
\* upsert_document_property a PUT or POST is only ever the second request,
\* after a GET of the same call that succeeded; when the read fails the
\* call ends with that one request and the upstream record is untouched.
\* ---------------------------------------------------------------------
ReadThenWriteTools ==
  {"update_vulnerability", "update_content_block", "upsert_document_property"}

C17_NoWriteAfterFailedRead ==
  [][\A c \in Slots :
       /\ call'[c].tool \in ReadThenWriteTools =>
            \A i \in 1..Len(call'[c].sent) :
              call'[c].sent[i].m \in {"PUT", "POST"} =>
                /\ i = 2
                /\ call'[c].sent[1].m = "GET"
                /\ call'[c].sent[1].st = "ok"
       /\ (call[c].tool \in ReadThenWriteTools /\ call[c].pc = "fetch"
             /\ call'[c].pc = "done") =>
            /\ call'[c].result # "ok"
            /\ Len(call'[c].sent) = 1
            /\ call'[c].sent[1].st \in FailureOutcomes
            /\ issue' = issue
    ]_vars

C17_Witness ==
  \E c \in Slots :
    /\ call[c].tool = "update_vulnerability"
    /\ call[c].pc = "done"
    /\ Len(call[c].sent) = 1
    /\ call[c].sent[1].st = "http"
    /\ call[c].result = "UpstreamHTTPError"
    /\ issue.rev = 0

====
